---- MODULE Spec2Model ----
(***************************************************************************)
(* Gameplay state machine of "Escape the Qubits" (src/escape_qubits.py):   *)
(* class Qubit and the state-changing methods of class Game (reset,        *)
(* spawn_qubit, handle_input, try_move, update) together with the frame    *)
(* loop of Game.run.  Rendering is read-only and is not modelled.          *)
(*                                                                         *)
(* Time is the wall clock read by time.time(), measured in tenths of a     *)
(* second, so that the configuration values 0.4, 1.1, 1.2 and 45.0 are the *)
(* integers 4, 11, 12 and 450.  Every method samples the clock once, as    *)
(* the code does; the clock advances between method calls.                 *)
(***************************************************************************)
EXTENDS Integers, Sequences, FiniteSets, TLC

-----------------------------------------------------------------------------
(* Configuration (src/escape_qubits.py lines 16-29), times in 0.1 s.       *)

GRID_COLS == 10
GRID_ROWS == 10
TOTAL_TIME == 450
MAX_ACTIVE_QUBITS == 6
SPAWN_INTERVAL_MIN == 4
SPAWN_INTERVAL_MAX == 11
QUBIT_LIFETIME == 12
\* the retry bound of the loop "while tries < 50" in spawn_qubit
MAX_SPAWN_TRIES == 50

-----------------------------------------------------------------------------
(* Bounds of the model.                                                    *)

\* the clock takes its short steps while it is below MaxClock
MaxClock == 16
\* random tiles are drawn from the first SpawnCols tiles of the bottom row,
\* the first being the start tile (and the goal tile, which spawn_qubit
\* must reject)
SpawnCols == 2
\* number of freely chosen random tiles at the head of a draw sequence
MaxDraws == 2
\* number of try_move calls in the scenario of a run without hazards
MaxMoves == 20

-----------------------------------------------------------------------------

VARIABLES
    player,           \* self.player: <<col, row>>
    qubits,           \* self.qubits: sequence of Qubit records
    start_time,       \* self.start_time
    next_spawn_time,  \* self.next_spawn_time
    running,          \* self.running
    win,              \* self.win
    lose,             \* self.lose
    pause,            \* self.pause
    clock,            \* the wall clock, the value time.time() returns
    last              \* the operation that produced this state

game == <<player, qubits, start_time, next_spawn_time, running, win, lose, pause>>
vars == <<player, qubits, start_time, next_spawn_time, running, win, lose, pause,
          clock, last>>

start == <<0, GRID_ROWS - 1>>

\* faulty variant of goal: the bottom-right tile
goal_bottom_right == <<GRID_COLS - 1, GRID_ROWS - 1>>

goal == <<GRID_COLS - 1, 0>>

Tiles == (0 .. GRID_COLS - 1) \X (0 .. GRID_ROWS - 1)

\* the tiles the modelled random source draws, out of the pairs
\* (randrange(GRID_COLS), randrange(GRID_ROWS))
RandTiles == {<<c, GRID_ROWS - 1>> : c \in 0 .. SpawnCols - 1} \cup {goal}

\* the values the modelled random.uniform(SPAWN_INTERVAL_MIN, SPAWN_INTERVAL_MAX) draws
UniformDraws == {SPAWN_INTERVAL_MIN, SPAWN_INTERVAL_MAX}

\* The candidate tiles the loop of spawn_qubit may draw, one sequence per
\* call: MaxDraws freely drawn tiles, and the goal tile at every later draw.
\* A sequence is given by its first MaxDraws draws.
DrawSeqs == [1 .. MaxDraws -> RandTiles]

\* draw number k of the sequence draws
Draw(draws, k) == IF k <= MaxDraws THEN draws[k] ELSE goal

\* the arrow keys: K_LEFT, K_RIGHT, K_UP, K_DOWN
Dirs == {<<-1, 0>>, <<1, 0>>, <<0, -1>>, <<0, 1>>}

-----------------------------------------------------------------------------
(* class Qubit                                                             *)

Qubit(grid_pos, spawn_time) ==
    [grid_pos |-> grid_pos, spawn_time |-> spawn_time, lifetime |-> QUBIT_LIFETIME]

age(q, now) == now - q.spawn_time

\* faulty variant of is_alive: alive at the age of the lifetime
is_alive_incl(q, now) == age(q, now) <= q.lifetime

is_alive(q, now) == age(q, now) < q.lifetime

-----------------------------------------------------------------------------
(* class Game                                                              *)

\* the phase the three flags running, win and lose encode
phase ==
    IF running /\ ~win /\ ~lose THEN "Playing"
    ELSE IF ~running /\ win /\ ~lose THEN "Won"
    ELSE IF ~running /\ ~win /\ lose THEN "Lost"
    ELSE "Invalid"

\* What the last step was: the operation, the phase it was called in, whether
\* a try_move committed its move, whether the destination of a try_move was
\* outside the grid, the ages of the hazards an update purged, and the number
\* of candidates a spawn_qubit rejected.
Op(name, moved, purged, tries) ==
    [op |-> name, was |-> phase, moved |-> moved, oob |-> FALSE, purged |-> purged,
     tries |-> tries]

\* the step of a call try_move(dx, dy)
MoveOp(dx, dy) ==
    [Op("try_move", player' # player, {}, 0) EXCEPT
        !.oob = ~(/\ player[1] + dx \in 0 .. GRID_COLS - 1
                  /\ player[2] + dy \in 0 .. GRID_ROWS - 1)]

Init ==
    /\ clock = 0
    /\ player = start
    /\ qubits = <<>>
    /\ start_time = 0
    /\ next_spawn_time \in {0 + u : u \in UniformDraws}
    /\ running = TRUE
    /\ win = FALSE
    /\ lose = FALSE
    /\ pause = FALSE
    /\ last = [op |-> "init", was |-> "Playing", moved |-> FALSE, oob |-> FALSE,
               purged |-> {}, tries |-> 0]

\* faulty variant of reset: the list of hazards is kept
reset_keeps_qubits(u) ==
    /\ player' = start
    /\ qubits' = qubits
    /\ start_time' = clock
    /\ next_spawn_time' = clock + u
    /\ running' = TRUE
    /\ win' = FALSE
    /\ lose' = FALSE
    /\ pause' = FALSE

\* faulty variant of reset: the flag lose is not reset
reset_keeps_lose(u) ==
    /\ player' = start
    /\ qubits' = <<>>
    /\ start_time' = clock
    /\ next_spawn_time' = clock + u
    /\ running' = TRUE
    /\ win' = FALSE
    /\ lose' = lose
    /\ pause' = FALSE

reset(u) ==
    /\ player' = start
    /\ qubits' = <<>>
    /\ start_time' = clock
    /\ next_spawn_time' = clock + u
    /\ running' = TRUE
    /\ win' = FALSE
    /\ lose' = FALSE
    /\ pause' = FALSE

\* "any(q.grid_pos == candidate and q.is_alive(now) for q in self.qubits)"
occupied(qs, candidate, now) ==
    \E i \in 1 .. Len(qs) : qs[i].grid_pos = candidate /\ is_alive(qs[i], now)

\* faulty variant of rejected: only the goal tile is refused
rejected_goal_only(qs, candidate, now) ==
    candidate = goal

\* a candidate the loop of spawn_qubit passes over with "tries += 1"
rejected(qs, candidate, now) ==
    candidate = goal \/ occupied(qs, candidate, now)

\* faulty variant of spawn_loop: when every candidate was rejected the last
\* one is appended all the same
spawn_loop_keeps_last(qs, now, draws) ==
    IF \A k \in 1 .. MAX_SPAWN_TRIES : rejected(qs, Draw(draws, k), now)
    THEN [qubits |-> Append(qs, Qubit(Draw(draws, MAX_SPAWN_TRIES), now)),
          tries |-> MAX_SPAWN_TRIES]
    ELSE LET first == CHOOSE k \in 1 .. MAX_SPAWN_TRIES :
                          /\ ~rejected(qs, Draw(draws, k), now)
                          /\ \A j \in 1 .. k - 1 : rejected(qs, Draw(draws, j), now)
             candidate == Draw(draws, first)
         IN  [qubits |-> Append(qs, Qubit(candidate, now)), tries |-> first - 1]

\* The loop of spawn_qubit (lines 93-107) over the candidates it draws: the
\* list after the loop and the number of rejected candidates.  The list does
\* not change before the loop ends, every draw before the first accepted one
\* adds one to tries, and the loop ends at the first accepted draw or, when
\* the first MAX_SPAWN_TRIES draws are all rejected, with tries at its bound.
spawn_loop(qs, now, draws) ==
    IF \A k \in 1 .. MAX_SPAWN_TRIES : rejected(qs, Draw(draws, k), now)
    THEN [qubits |-> qs, tries |-> MAX_SPAWN_TRIES]
    ELSE LET first == CHOOSE k \in 1 .. MAX_SPAWN_TRIES :
                          /\ ~rejected(qs, Draw(draws, k), now)
                          /\ \A j \in 1 .. k - 1 : rejected(qs, Draw(draws, j), now)
             candidate == Draw(draws, first)
         IN  [qubits |-> Append(qs, Qubit(candidate, now)), tries |-> first - 1]

\* faulty variant of spawn_qubit: the cap is compared with >
spawn_qubit_gt(qs, now, draws) ==
    IF Len(qs) > MAX_ACTIVE_QUBITS
    THEN [qubits |-> qs, tries |-> 0]
    ELSE spawn_loop(qs, now, draws)

spawn_qubit(qs, now, draws) ==
    IF Len(qs) >= MAX_ACTIVE_QUBITS
    THEN [qubits |-> qs, tries |-> 0]
    ELSE spawn_loop(qs, now, draws)

\* faulty variant of in_bounds: column GRID_COLS passes
in_bounds_incl(new_c, new_r) ==
    0 <= new_c /\ new_c <= GRID_COLS /\ 0 <= new_r /\ new_r < GRID_ROWS

\* faulty variant of in_bounds: the lower limits are not looked at
in_bounds_upper_only(new_c, new_r) ==
    new_c < GRID_COLS /\ new_r < GRID_ROWS

\* "0 <= new_c < GRID_COLS and 0 <= new_r < GRID_ROWS"
in_bounds(new_c, new_r) ==
    0 <= new_c /\ new_c < GRID_COLS /\ 0 <= new_r /\ new_r < GRID_ROWS

\* faulty variant of hits_qubit: the loop stops after the first qubit
hits_qubit_head(qs, pos, now) ==
    Len(qs) >= 1 /\ qs[1].grid_pos = pos /\ is_alive(qs[1], now)

\* faulty variant of hits_qubit: is_alive is not asked
hits_qubit_any(qs, pos, now) ==
    \E i \in 1 .. Len(qs) : qs[i].grid_pos = pos

\* the loop of try_move over self.qubits: some alive qubit is at the new cell
hits_qubit(qs, pos, now) ==
    \E i \in 1 .. Len(qs) : qs[i].grid_pos = pos /\ is_alive(qs[i], now)

\* faulty variant of at_goal: column and row of the goal exchanged
at_goal_swapped(pos) == pos = <<goal[2], goal[1]>>

\* "tuple(self.player) == self.goal"
at_goal(pos) == pos = goal

\* faulty variant of can_move: only pause is looked at
can_move_unless_paused == ~pause

\* "self.running and not self.pause"
can_move == running /\ ~pause

try_move(dx, dy) ==
    IF ~can_move
    THEN UNCHANGED game
    ELSE LET new_c == player[1] + dx
             new_r == player[2] + dy
             now == clock
         IN  IF in_bounds(new_c, new_r)
             THEN /\ player' = <<new_c, new_r>>
                  /\ IF hits_qubit(qubits, <<new_c, new_r>>, now)
                     THEN lose' = TRUE /\ running' = FALSE /\ win' = win
                     ELSE IF at_goal(<<new_c, new_r>>)
                          THEN win' = TRUE /\ running' = FALSE /\ lose' = lose
                          ELSE UNCHANGED <<running, win, lose>>
                  /\ UNCHANGED <<qubits, start_time, next_spawn_time, pause>>
             ELSE UNCHANGED game

\* the list comprehension "[q for q in self.qubits if q.is_alive(now)]"
AliveOnly(qs, now) == SelectSeq(qs, LAMBDA q : is_alive(q, now))

\* faulty variant of player_hit: a hazard spawned at now does not count
player_hit_aged(qs, now) ==
    \E i \in 1 .. Len(qs) :
        qs[i].grid_pos = player /\ is_alive(qs[i], now) /\ age(qs[i], now) > 0
            /\ running

\* the loop of update over self.qubits: some alive qubit is on the player's
\* tile while the game is running
player_hit(qs, now) ==
    \E i \in 1 .. Len(qs) :
        qs[i].grid_pos = player /\ is_alive(qs[i], now) /\ running

\* faulty variant of timed_out: time_left < 0
timed_out_strict(now) ==
    LET elapsed == now - start_time
        time_left == TOTAL_TIME - elapsed
    IN  time_left < 0 /\ running

\* faulty variant of timed_out: without "and self.running"
timed_out_any_phase(now) ==
    LET elapsed == now - start_time
        time_left == TOTAL_TIME - elapsed
    IN  time_left <= 0

\* faulty variant of timed_out: the timer is never looked at
timed_out_never(now) == FALSE

\* the timer check: "time_left <= 0 and self.running"
timed_out(now) ==
    LET elapsed == now - start_time
        time_left == TOTAL_TIME - elapsed
    IN  time_left <= 0 /\ running

\* update from the purge on (lines 169-185), given the list and the spawn
\* time that the spawn step (lines 164-167) left
update_rest(now, spawned, spawn_time) ==
    LET kept == AliveOnly(spawned, now)
    IN  /\ next_spawn_time' = spawn_time
        /\ qubits' = kept
        /\ IF player_hit(kept, now)
           THEN lose' = TRUE /\ running' = FALSE
           ELSE IF timed_out(now)
                THEN lose' = TRUE /\ running' = FALSE
                ELSE UNCHANGED <<running, lose>>
        /\ last' = Op("update", FALSE,
                      {age(spawned[i], now) : i \in {j \in 1 .. Len(spawned) :
                                                       ~is_alive(spawned[j], now)}},
                      0)
        /\ UNCHANGED <<player, start_time, win, pause>>

\* faulty variant of spawn_due: the spawn time itself is too early
spawn_due_strict(now) == now > next_spawn_time /\ running

\* "now >= self.next_spawn_time and self.running"
spawn_due(now) == now >= next_spawn_time /\ running

\* random numbers are drawn only when a spawn is due
update ==
    LET now == clock
    IN  IF spawn_due(now)
        THEN \E spawned \in {spawn_qubit(qubits, now, draws).qubits : draws \in DrawSeqs} :
                \E u \in UniformDraws : update_rest(now, spawned, now + u)
        ELSE update_rest(now, qubits, next_spawn_time)

-----------------------------------------------------------------------------
(* Game.run: the frame loop, one action per step of a frame.               *)

\* handle_input, a KEYDOWN event of an arrow key
KeyMove ==
    /\ \E d \in Dirs :
          IF win \/ lose
          THEN UNCHANGED game /\ last' = Op("key_arrow", FALSE, {}, 0)
          ELSE try_move(d[1], d[2]) /\ last' = MoveOp(d[1], d[2])
    /\ UNCHANGED clock

\* handle_input, a KEYDOWN event of K_r
\* faulty variant of KeyRestart: R restarts the game in every phase
KeyRestart_any_phase ==
    /\ (\E u \in UniformDraws : reset(u)) /\ last' = Op("reset", FALSE, {}, 0)
    /\ UNCHANGED clock

KeyRestart ==
    /\ IF win \/ lose
       THEN (\E u \in UniformDraws : reset(u)) /\ last' = Op("reset", FALSE, {}, 0)
       ELSE UNCHANGED game /\ last' = Op("key_r", FALSE, {}, 0)
    /\ UNCHANGED clock

\* "if self.running: self.update()"
Frame ==
    /\ running
    /\ update
    /\ UNCHANGED clock

\* time passes between two steps: a frame-sized step of the clock
Tick ==
    /\ clock < MaxClock
    /\ clock' = clock + SPAWN_INTERVAL_MIN
    /\ last' = Op("tick", FALSE, {}, 0)
    /\ UNCHANGED game

\* time passes between two steps: the length of a hazard's life
TickLifetime ==
    /\ clock < MaxClock
    /\ clock' = clock + QUBIT_LIFETIME
    /\ last' = Op("tick", FALSE, {}, 0)
    /\ UNCHANGED game

\* time passes between two steps: the process is held up for the length of
\* the whole time budget, once
Stall ==
    /\ clock < TOTAL_TIME
    /\ clock' = clock + TOTAL_TIME
    /\ last' = Op("tick", FALSE, {}, 0)
    /\ UNCHANGED game

Next == KeyMove \/ KeyRestart \/ Frame \/ Tick \/ Stall

Spec == Init /\ [][Next]_vars

\* The frame loop under the two conditions of a run that goes on: the loop of
\* run keeps calling update while running is set, and the wall clock passes
\* every value, the end of the current time budget included.  The clock of
\* the model stops after Stall, so R is followed only while a whole budget
\* can still pass.

LiveRestart == clock < TOTAL_TIME /\ KeyRestart

LiveNext == KeyMove \/ LiveRestart \/ Frame \/ TickLifetime \/ Stall

LiveSpec == Init /\ [][LiveNext]_vars /\ WF_vars(Frame) /\ WF_vars(Stall)

-----------------------------------------------------------------------------
(* The methods of Game called directly, in any order and in any phase.     *)

ApiReset ==
    /\ \E u \in UniformDraws : reset(u)
    /\ last' = Op("reset", FALSE, {}, 0)
    /\ UNCHANGED clock

ApiTryMove ==
    /\ \E d \in Dirs : try_move(d[1], d[2]) /\ last' = MoveOp(d[1], d[2])
    /\ UNCHANGED clock

ApiUpdate ==
    /\ update
    /\ UNCHANGED clock

ApiSpawn ==
    /\ \E r \in {spawn_qubit(qubits, clock, draws) : draws \in DrawSeqs} :
          /\ qubits' = r.qubits
          /\ last' = Op("spawn_qubit", FALSE, {}, r.tries)
    /\ UNCHANGED <<player, start_time, next_spawn_time, running, win, lose, pause, clock>>

ApiNext == ApiReset \/ ApiTryMove \/ ApiUpdate \/ Tick \/ Stall

ApiSpec == Init /\ [][ApiNext]_vars

\* reset, update and spawn_qubit called directly, the player standing still
SpawnNext == ApiReset \/ ApiUpdate \/ ApiSpawn \/ TickLifetime \/ Stall

SpawnSpec == Init /\ [][SpawnNext]_vars

\* The scenario of a run without hazards: one arrow key per tenth of a second
\* and no update, so that the clock counts the try_move calls of the run.

GoalMove ==
    /\ clock - start_time < MaxMoves
    /\ \E d \in Dirs : try_move(d[1], d[2]) /\ last' = MoveOp(d[1], d[2])
    /\ clock' = clock + 1

GoalSpec == Init /\ [][GoalMove]_vars

-----------------------------------------------------------------------------
(* Properties.                                                             *)

\* the time since the run started; in GoalSpec, the number of try_move calls
elapsed == clock - start_time

\* some hazard of the list that is alive at the current clock is on tile pos
AliveHazardOn(pos) ==
    \E i \in 1 .. Len(qubits) :
        qubits[i].grid_pos = pos /\ clock - qubits[i].spawn_time < qubits[i].lifetime

\* C1: in every reachable state the player position (col, row) satisfies
\* 0 <= col < GRID_COLS and 0 <= row < GRID_ROWS.
C1_PlayerInGrid ==
    /\ 0 <= player[1] /\ player[1] < GRID_COLS
    /\ 0 <= player[2] /\ player[2] < GRID_ROWS

\* a try_move made in phase Playing from the bottom-right corner was rejected
C1_Witness ==
    /\ last.op = "try_move" /\ last.was = "Playing" /\ ~last.moved
    /\ player = <<GRID_COLS - 1, GRID_ROWS - 1>>

\* C2: phase Won is never entered when the time elapsed since start_time is
\* already at least the total time budget.
C2_WinOnlyBeforeTimeout ==
    [][(~win /\ win') => clock - start_time < TOTAL_TIME]_vars

\* C3: a try_move made in phase Playing that commits a move onto the goal tile
\* leaves the phase Won, unless a hazard alive at that time is on the goal
\* tile, and then it leaves the phase Lost.
C3_GoalMoveWins ==
    (last.op = "try_move" /\ last.was = "Playing" /\ last.moved /\ player = goal)
        => IF AliveHazardOn(goal) THEN phase = "Lost" ELSE phase = "Won"

C3_Witness ==
    /\ last.op = "try_move" /\ last.was = "Playing" /\ last.moved
    /\ player = goal /\ phase = "Won"

\* C4: an update made in phase Playing when the elapsed time is at least
\* TOTAL_TIME leaves the phase Lost, and an update made in phase Lost leaves
\* the phase Lost (win, lose and running as they were).
C4_TimeoutLosesOnce ==
    (/\ last.op = "update"
     /\ \/ last.was = "Lost"
        \/ last.was = "Playing" /\ elapsed >= TOTAL_TIME)
        => phase = "Lost"

\* the timer alone ended the run: no hazard is on the player's tile
C4_Witness ==
    /\ last.op = "update" /\ last.was = "Playing" /\ elapsed >= TOTAL_TIME
    /\ phase = "Lost" /\ ~AliveHazardOn(player)

\* C5: the list of hazards never holds more than MAX_ACTIVE_QUBITS hazards.
C5_AtMostCap == Len(qubits) <= MAX_ACTIVE_QUBITS

C5_Witness == last.op = "spawn_qubit" /\ Len(qubits) = MAX_ACTIVE_QUBITS

\* C6: after an update, whichever way it returned, the list holds no hazard
\* whose age is at least its lifetime.
C6_NoDeadAfterUpdate ==
    last.op = "update" =>
        \A i \in 1 .. Len(qubits) :
            ~(clock - qubits[i].spawn_time >= qubits[i].lifetime)

\* the update purged a hazard whose age was exactly its lifetime
C6_Witness == last.op = "update" /\ QUBIT_LIFETIME \in last.purged

\* C7: an update made in phase Playing that leaves an alive hazard on the
\* player's tile leaves the phase Lost.
C7_HazardOnPlayerLoses ==
    (last.op = "update" /\ last.was = "Playing" /\ AliveHazardOn(player))
        => phase = "Lost"

\* the hazard on the player's tile was spawned by this very update
C7_Witness ==
    /\ last.op = "update" /\ last.was = "Playing" /\ phase = "Lost"
    /\ \E i \in 1 .. Len(qubits) :
          qubits[i].grid_pos = player /\ qubits[i].spawn_time = clock

\* C8: after reset the phase is Playing, the list of hazards is empty, the
\* player is on the start tile, pause is false, start_time is the current
\* time and next_spawn_time is in
\* [start_time + SPAWN_INTERVAL_MIN, start_time + SPAWN_INTERVAL_MAX].
C8_ResetState ==
    last.op = "reset" =>
        /\ running /\ ~win /\ ~lose
        /\ qubits = <<>>
        /\ player = <<0, GRID_ROWS - 1>>
        /\ ~pause
        /\ start_time = clock
        /\ start_time + SPAWN_INTERVAL_MIN <= next_spawn_time
        /\ next_spawn_time <= start_time + SPAWN_INTERVAL_MAX

C8_Witness == last.op = "reset" /\ last.was = "Lost" /\ clock > 0

\* C9: a step leaves phase Playing only for Won or Lost, and it leaves Won or
\* Lost only by reset, for Playing.
C9_OneWay ==
    [][/\ phase = "Playing" => phase' \in {"Playing", "Won", "Lost"}
       /\ phase \in {"Won", "Lost"} =>
             \/ phase' = phase
             \/ last'.op = "reset" /\ phase' = "Playing"]_vars

\* try_move or update was called in phase Won
C9_Witness ==
    last.op \in {"try_move", "update"} /\ last.was = "Won" /\ phase = "Won"

\* the number of moves right and up that separate the player from the start
Dist == (player[1] - start[1]) + (start[2] - player[2])

\* C10: without hazards and within the time budget, no run wins with fewer
\* than 18 try_move calls, and a run of right and up moves only is in phase
\* Playing after each of its first 17 moves and in phase Won after the 18th.
C10_EighteenMoves ==
    /\ win => elapsed >= 18
    /\ (Dist = elapsed /\ elapsed < 18) => phase = "Playing"
    /\ (Dist = elapsed /\ elapsed = 18) => phase = "Won"

C10_Witness == phase = "Won" /\ elapsed = 18 /\ Dist = 18 /\ qubits = <<>>

\* C11: a call of try_move whose destination is outside the grid changes
\* neither the player's position, nor the flags running, win and lose, nor
\* the list of hazards.
C11_OutsideGridNoChange ==
    [][(last'.op = "try_move" /\ last'.oob) =>
          /\ player' = player
          /\ running' = running /\ win' = win /\ lose' = lose
          /\ qubits' = qubits]_vars

\* try_move was called in phase Playing with a destination outside the grid
C11_Witness ==
    last.op = "try_move" /\ last.oob /\ last.was = "Playing" /\ phase = "Playing"

\* C12: a call of try_move in phase Won or Lost, or while pause is set, leaves
\* the player, the hazards, the two times and all flags unchanged.
C12_MoveIgnoredWhenOver ==
    [][(last'.op = "try_move" /\ (phase \in {"Won", "Lost"} \/ pause)) =>
          UNCHANGED game]_vars

\* try_move was called in phase Lost with a destination inside the grid
C12_Witness ==
    last.op = "try_move" /\ last.was = "Lost" /\ ~last.oob /\ ~last.moved

\* C13: the key R pressed in phase Playing leaves the player, the hazards, the
\* two times and all flags unchanged, and a reset that a key causes happens
\* in phase Won or Lost only.
C13_RestartOnlyWhenOver ==
    [][/\ last'.op = "key_r" => (phase = "Playing" /\ UNCHANGED game)
       /\ last'.op = "reset" => phase \in {"Won", "Lost"}]_vars

\* R was pressed in phase Playing after the player had left the start tile
C13_Witness ==
    last.op = "key_r" /\ phase = "Playing" /\ player # start /\ qubits # <<>>

\* C14: no hazard of the list is on the goal tile, and no two hazards that are
\* alive at the current time are on the same tile; in particular a hazard that
\* spawn_qubit has just inserted shares its tile with no other alive hazard.
C14_SpawnPlacement ==
    /\ \A i \in 1 .. Len(qubits) : qubits[i].grid_pos # goal
    /\ \A i, j \in 1 .. Len(qubits) :
          (/\ i # j
           /\ qubits[i].grid_pos = qubits[j].grid_pos
           /\ clock - qubits[i].spawn_time < qubits[i].lifetime)
          => clock - qubits[j].spawn_time >= qubits[j].lifetime

\* spawn_qubit has just put a hazard on a tile that holds an expired one
C14_Witness ==
    /\ last.op = "spawn_qubit"
    /\ \E i, j \in 1 .. Len(qubits) :
          /\ i < j
          /\ qubits[i].grid_pos = qubits[j].grid_pos
          /\ qubits[j].spawn_time = clock
          /\ clock - qubits[i].spawn_time >= qubits[i].lifetime

\* C15: after a call of try_move that leaves the phase Playing the player is
\* neither on the goal tile nor on the tile of a hazard alive at the time of
\* the call, and in every state of phase Playing the player is not on the
\* goal tile.
C15_PlayingOffGoalAndHazard ==
    /\ (last.op = "try_move" /\ phase = "Playing") =>
          (player # goal /\ ~AliveHazardOn(player))
    /\ phase = "Playing" => player # goal

\* a move was committed next to an alive hazard and the game goes on
C15_Witness ==
    /\ last.op = "try_move" /\ last.moved /\ phase = "Playing"
    /\ \E i \in 1 .. Len(qubits) :
          /\ clock - qubits[i].spawn_time < qubits[i].lifetime
          /\ qubits[i].grid_pos # player


\* the hazards of the list after a step that the list before it does not hold
Added == {i \in 1 .. Len(qubits') : \A j \in 1 .. Len(qubits) : qubits[j] # qubits'[i]}

\* C16: an update whose time is at least next_spawn_time, in phase Playing,
\* adds at most one hazard and sets next_spawn_time between now plus
\* SPAWN_INTERVAL_MIN and now plus SPAWN_INTERVAL_MAX, whether or not a hazard
\* was added; every other update adds no hazard and leaves next_spawn_time
\* unchanged.
C16_SpawnSchedule ==
    [][last'.op = "update" =>
          IF clock >= next_spawn_time /\ phase = "Playing"
          THEN /\ Cardinality(Added) <= 1
               /\ \A i \in Added : i = Len(qubits') /\ qubits'[i].spawn_time = clock
               /\ next_spawn_time' >= clock + SPAWN_INTERVAL_MIN
               /\ next_spawn_time' <= clock + SPAWN_INTERVAL_MAX
          ELSE /\ Added = {}
               /\ next_spawn_time' = next_spawn_time]_vars

\* an update made exactly at next_spawn_time added a hazard and set the next
\* spawn time
C16_Witness ==
    /\ last.op = "update" /\ last.was = "Playing"
    /\ next_spawn_time = clock + SPAWN_INTERVAL_MAX
    /\ qubits # <<>> /\ qubits[Len(qubits)].spawn_time = clock
    /\ clock \in {SPAWN_INTERVAL_MIN, start_time + SPAWN_INTERVAL_MIN}

\* C17: a call of spawn_qubit rejects at most MAX_SPAWN_TRIES candidates; on a
\* list of MAX_ACTIVE_QUBITS or more hazards it changes nothing and draws no
\* candidate; when it accepts a candidate it appends exactly one hazard, born
\* now, on a tile that is not the goal; when it rejects MAX_SPAWN_TRIES
\* candidates it leaves the list unchanged.
C17_SpawnBounded ==
    [][last'.op = "spawn_qubit" =>
          /\ last'.tries \in 0 .. MAX_SPAWN_TRIES
          /\ Len(qubits) >= MAX_ACTIVE_QUBITS => (qubits' = qubits /\ last'.tries = 0)
          /\ last'.tries = MAX_SPAWN_TRIES => qubits' = qubits
          /\ (Len(qubits) < MAX_ACTIVE_QUBITS /\ last'.tries < MAX_SPAWN_TRIES) =>
                /\ Len(qubits') = Len(qubits) + 1
                /\ SubSeq(qubits', 1, Len(qubits)) = qubits
                /\ qubits'[Len(qubits')].spawn_time = clock
                /\ qubits'[Len(qubits')].grid_pos # goal]_vars

\* spawn_qubit has rejected MAX_SPAWN_TRIES candidates on a list below the cap
C17_Witness ==
    /\ last.op = "spawn_qubit" /\ last.tries = MAX_SPAWN_TRIES
    /\ Len(qubits) < MAX_ACTIVE_QUBITS

\* C18: when update keeps being called and time keeps passing, every state
\* of phase Playing is followed by a state of phase Won or Lost, and an update
\* whose time is TOTAL_TIME or more after start_time does not leave the phase
\* Playing.
C18_EveryRunEnds ==
    /\ (phase = "Playing") ~> (phase \in {"Won", "Lost"})
    /\ [](last.op = "update" /\ elapsed >= TOTAL_TIME => phase # "Playing")

\* a run restarted with R has been ended by the timer, the player on its way
C18_Witness ==
    /\ last.op = "update" /\ last.was = "Playing" /\ phase = "Lost"
    /\ start_time > 0 /\ elapsed >= TOTAL_TIME /\ player # start
    /\ ~AliveHazardOn(player)

\* C19: a step sets lose only when, at the time of the step, a hazard younger
\* than its lifetime is on the player's tile or TOTAL_TIME or more has passed
\* since start_time; a move onto the tile of an expired hazard that is still
\* in the list does not set lose.
C19_LossCauses ==
    [][(~lose /\ lose') =>
          \/ \E i \in 1 .. Len(qubits') :
                /\ qubits'[i].grid_pos = player'
                /\ clock - qubits'[i].spawn_time < qubits'[i].lifetime
          \/ last'.op = "update" /\ clock - start_time >= TOTAL_TIME]_vars

\* the player has moved onto the tile of an expired hazard that is still in
\* the list, and the game goes on
C19_Witness ==
    /\ last.op = "try_move" /\ last.moved /\ phase = "Playing"
    /\ \E i \in 1 .. Len(qubits) :
          /\ qubits[i].grid_pos = player
          /\ clock - qubits[i].spawn_time >= qubits[i].lifetime

\* C20: running is set exactly when neither win nor lose is set, and win and
\* lose are never both set.
C20_FlagsConsistent ==
    /\ running <=> (~win /\ ~lose)
    /\ ~(win /\ lose)

\* the flags after a
\* reset made in phase Won
C20_Witness ==
    last.op = "reset" /\ last.was = "Won" /\ running /\ ~win /\ ~lose

====
